---- MODULE Spec2Model ----
(***************************************************************************)
(* State-machine model of the SaaS backend in src/main.py: one action per  *)
(* HTTP route, over a document store with the three collections the       *)
(* handlers use.  The persistence helpers (create_document, get_documents) *)
(* and the schemas (User, BlogPost, ContactMessage) are imported by        *)
(* main.py from modules that are not part of the sources; they are         *)
(* modelled from the written specification.                                *)
(***************************************************************************)
EXTENDS Integers, Sequences, FiniteSets, TLC

VARIABLES
    db,         \* the module-level database handle: "none" or "handle"
    store,      \* collection name -> sequence of stored documents
    last,       \* the last request served and the response it got
    signups     \* history: the bodies of the signups answered 200, in order

vars == <<db, store, last, signups>>

----------------------------------------------------------------------------
(* Bounds of the model *)

\* posts the blog collection may hold: one more than the default limit
MaxPosts == 11
\* documents the store may hold besides published posts: users, contact
\* messages and unpublished posts together
MaxOther == 2
\* limits offered to list_blogs besides the default: -1..MaxLimit
MaxLimit == 2

(* list_blogs(limit: int = 10) *)
DefaultLimit == 10

----------------------------------------------------------------------------
(* Input domains *)

Emails == {"a@x.io", "b@x.io"}
\* passwords offered at login: one that signups use and one that none uses
LoginPasswords == {"hunter2", "letmein"}

Collections == {"user", "blogpost", "contactmessage"}

\* outcome of one call of the persistence layer: "none" (it works) or the
\* message of the exception it raises
Faults == {"none", "connection timed out"}

NoDbMessage == "Database not available"

None == "None"

Min(a, b) == IF a < b THEN a ELSE b

Take(s, n) == SubSeq(s, 1, Min(n, Len(s)))

----------------------------------------------------------------------------
(* Conversions *)

\* sha256(pw.encode()).hexdigest() on the passwords of the model
Sha256Hex(pw) ==
    CASE pw = "hunter2" -> "f52fbd32b2b3b86ff88ef6c490628285f482af15ddcb29541f94bcf526a3f6c7"
      [] pw = "s3cret"  -> "1ec1c26b50d5d3c58d9583181af8076655fe00756bf7285940ba3670f99fcba0"
      [] pw = "letmein" -> "1c8bfe8f801d79745c4631d09fff36c82aa37fc4cce4fc946683d7b336b63032"

\* str(ObjectId): the native key is modelled as a positive integer and its
\* text form as the decimal numeral
Str(oid) == ToString(oid)

\* a message of more than 50 characters, raised by list_collection_names
LongMessage == "ServerSelectionTimeoutError: localhost:27017: [Errno 111] Connection refused"

\* str(e)[:50] on the messages of the model: LongMessage is cut to its first
\* 50 characters, the others are shorter than 50 characters and kept whole
Trunc50(msg) ==
    IF msg = LongMessage
    THEN "ServerSelectionTimeoutError: localhost:27017: [Err"
    ELSE msg

----------------------------------------------------------------------------
(* Persistence layer and schemas *)

\* what a call of the persistence layer meets: without a handle every call
\* raises; with one, the call works or raises the fault the environment chose
EffectiveFault(fault) == IF db = "none" THEN NoDbMessage ELSE fault

Matches(doc, filter) ==
    \A f \in DOMAIN filter : f \in DOMAIN doc /\ doc[f] = filter[f]

\* create_document(collection, record) -> id : one all-or-nothing write
create_document(coll, doc, fault) ==
    LET eff == EffectiveFault(fault)
        oid == Len(store[coll]) + 1
    IN  IF eff # "none"
        THEN [raised |-> TRUE, msg |-> eff, id |-> "", store |-> store]
        ELSE [raised |-> FALSE, msg |-> "", id |-> Str(oid),
              store |-> [store EXCEPT ![coll] = Append(@, doc @@ ("_id" :> oid))]]

\* get_documents(collection, filter, limit) -> list of records : the matching
\* documents in the store's natural (insertion) order, up to limit of them.
\* What a limit of zero or less reads is not specified: the layer then
\* returns the first count matching documents, count chosen by the
\* environment.
get_documents(coll, filter, limit, fault, count) ==
    LET eff == EffectiveFault(fault)
        hit(d) == Matches(d, filter)
    IN  IF eff # "none"
        THEN [raised |-> TRUE, msg |-> eff, docs |-> << >>]
        ELSE [raised |-> FALSE, msg |-> "",
              docs |-> Take(SelectSeq(store[coll], hit),
                            IF limit >= 1 THEN limit ELSE count)]

User(name, email, password_hash) ==
    [name |-> name, email |-> email, password_hash |-> password_hash]

BlogPost(d) ==
    [title |-> d.title, slug |-> d.slug, content |-> d.content,
     excerpt |-> d.excerpt, author |-> d.author, tags |-> d.tags,
     published |-> d.published]

ContactMessage(d) ==
    [name |-> d.name, email |-> d.email, message |-> d.message]

----------------------------------------------------------------------------
(* Responses *)

Ok(body) == [status |-> 200, body |-> body]

HTTPException(status_code, detail) ==
    [status |-> status_code, body |-> [detail |-> detail]]

\* the framework's answer to a body that does not fit the payload model
ValidationError(missing) == [status |-> 422, body |-> [detail |-> missing]]

Missing(required, body) == required \ DOMAIN body

\* the framework's answer when an exception leaves a handler uncaught
InternalServerError == [status |-> 500, body |-> "Internal Server Error"]

----------------------------------------------------------------------------
(* GET / *)

read_root == Ok([message |-> "SaaS Backend Running"])

----------------------------------------------------------------------------
(* GET /api/plans *)

Plan(id, name, price, features, highlighted) ==
    [id |-> id, name |-> name, price |-> price, features |-> features,
     highlighted |-> highlighted]

\* the plans ordered by name: Pro, Starter, Team
get_plans_by_name ==
    << Plan("pro", "Pro", "$19",
            <<"Unlimited projects", "Advanced analytics", "Priority support">>, TRUE),
       Plan("free", "Starter", "$0",
            <<"Up to 3 projects", "Basic analytics", "Community support">>, FALSE),
       Plan("team", "Team", "$49",
            <<"Team workspaces", "SSO (SAML)", "Admin controls">>, FALSE) >>

get_plans ==
    << Plan("free", "Starter", "$0",
            <<"Up to 3 projects", "Basic analytics", "Community support">>, FALSE),
       Plan("pro", "Pro", "$19",
            <<"Unlimited projects", "Advanced analytics", "Priority support">>, TRUE),
       Plan("team", "Team", "$49",
            <<"Team workspaces", "SSO (SAML)", "Admin controls">>, FALSE) >>

----------------------------------------------------------------------------
(* the handlers' "except Exception as e: raise HTTPException(500, str(e))" *)

\* a handler that hides the exception's message
ServerErrorGeneric(msg) == HTTPException(500, "Internal Server Error")

ServerError(msg) == HTTPException(500, msg)

----------------------------------------------------------------------------
(* POST /api/auth/signup *)

SignupRequired == {"name", "email", "password"}

\* two valid bodies (either may be sent again: there is no duplicate check)
\* and one that lacks the password
SignupBodies ==
    {[name |-> "Ann", email |-> "a@x.io", password |-> "hunter2"],
     [name |-> "Bob", email |-> "b@x.io", password |-> "s3cret"],
     [name |-> "Ann", email |-> "a@x.io"]}

\* a signup that stores the password as it came
PasswordPlain(pw) == pw

PasswordHash(pw) == Sha256Hex(pw)

UserCollection == "user"

\* result of the handler: its response and the store it leaves
signup(payload, fault) ==
    LET user == User(payload.name, payload.email, PasswordHash(payload.password))
        out  == create_document(UserCollection, user, fault)
    IN  IF out.raised
        THEN [response |-> ServerError(out.msg), store |-> store]
        ELSE [response |-> Ok([ok |-> TRUE, id |-> out.id]), store |-> out.store]

----------------------------------------------------------------------------
(* POST /api/auth/login *)

LoginRequired == {"email", "password"}

LoginBodies ==
    {[email |-> e, password |-> pw] : e \in Emails, pw \in LoginPasswords}
        \cup {[email |-> "a@x.io"]}

\* a login that also compares the stored digest with the password's
LoginCheckVerified(payload, docs) ==
    IF docs = << >> \/ docs[1].password_hash # Sha256Hex(payload.password)
    THEN [kind |-> "HTTPException", status |-> 401, detail |-> "Invalid credentials"]
    ELSE [kind |-> "return", status |-> 200, detail |-> "Logged in"]

\* body of the try block after the lookup: what it returns or raises
LoginCheck(payload, docs) ==
    IF docs = << >>
    THEN [kind |-> "HTTPException", status |-> 401, detail |-> "Invalid credentials"]
    ELSE [kind |-> "return", status |-> 200, detail |-> "Logged in"]

\* a login without the "except HTTPException: raise" clause
LoginCatchAll(exc) == HTTPException(500, exc.detail)

\* the two except clauses: an HTTPException is re-raised as it is, any other
\* exception becomes a 500 carrying its message
LoginCatch(exc) ==
    IF exc.kind = "HTTPException"
    THEN HTTPException(exc.status, exc.detail)
    ELSE ServerError(exc.detail)

login(payload, fault) ==
    LET out == get_documents(UserCollection, [email |-> payload.email], 1, fault, 0)
        res == IF out.raised
               THEN [kind |-> "Exception", status |-> 0, detail |-> out.msg]
               ELSE LoginCheck(payload, out.docs)
    IN  [response |-> IF res.kind = "return"
                      THEN Ok([ok |-> TRUE, message |-> res.detail])
                      ELSE LoginCatch(res),
         store |-> store]

----------------------------------------------------------------------------
(* POST /api/blog and GET /api/blog *)

BlogRequired == {"title", "slug", "content", "author"}

BlogFields ==
    {"title", "slug", "content", "excerpt", "author", "tags", "published"}

BlogBase == [title |-> "Hello", slug |-> "hello", content |-> "text", author |-> "Ann"]

\* bodies with published left out, given as true, given as false, and one
\* that lacks the required title
BlogBodies ==
    {BlogBase, BlogBase @@ [published |-> TRUE], BlogBase @@ [published |-> FALSE],
     [slug |-> "hello", content |-> "text", author |-> "Ann"]}

\* the defaults of BlogCreatePayload
BlogDefault(f) ==
    CASE f = "excerpt" -> None
      [] f = "tags" -> << >>
      [] f = "published" -> TRUE

\* payload.model_dump(): every field of the model, defaults filled in
BlogCreatePayload(body) ==
    [f \in BlogFields |-> IF f \in DOMAIN body THEN body[f] ELSE BlogDefault(f)]

BlogCollection == "blogpost"

\* the post is built before the try block: a body the schema refuses leaves
\* the handler as an uncaught exception
create_blog(body, fault) ==
    LET dump == BlogCreatePayload(body)
        post == BlogPost(dump)
        out  == create_document(BlogCollection, post, fault)
    IN  IF Missing(BlogRequired, body) # {}
        THEN [response |-> InternalServerError, store |-> store]
        ELSE IF out.raised
        THEN [response |-> ServerError(out.msg), store |-> store]
        ELSE [response |-> Ok([ok |-> TRUE, id |-> out.id]), store |-> out.store]

\* a list_blogs that reads without a filter
BlogFilterAll == << >>

\* a list_blogs that ignores its argument and reads with the default limit
BlogReadLimitDefault(limit) == DefaultLimit

\* the filter and the limit list_blogs hands to get_documents
BlogFilter == [published |-> TRUE]

BlogReadLimit(limit) == limit

\* a list_blogs that returns the records as read
RenameIdKept(p) == p

\* if "_id" in p: p["id"] = str(p.pop("_id"))
RenameId(p) ==
    IF "_id" \in DOMAIN p
    THEN [f \in (DOMAIN p \ {"_id"}) \cup {"id"} |->
             IF f = "id" THEN Str(p["_id"]) ELSE p[f]]
    ELSE p

list_blogs(limit, fault, count) ==
    LET out == get_documents(BlogCollection, BlogFilter, BlogReadLimit(limit), fault,
                             count)
    IN  [response |-> IF out.raised
                      THEN ServerError(out.msg)
                      ELSE Ok([i \in 1..Len(out.docs) |-> RenameId(out.docs[i])]),
         store |-> store]

\* limits offered to list_blogs: the handler takes any integer, so also
\* zero and a negative one
Limits == ((-1)..MaxLimit) \cup {DefaultLimit}

----------------------------------------------------------------------------
(* POST /api/contact *)

\* a payload model without the message field
ContactRequiredNoMessage == {"name", "email"}

ContactRequired == {"name", "email", "message"}

ContactBodies ==
    {[name |-> "Ann", email |-> "a@x.io", message |-> "hi"],
     [name |-> "Ann", email |-> "a@x.io"]}

\* a submit_contact that writes to the user collection
ContactCollectionUser == "user"

ContactCollection == "contactmessage"

ContactMessageFields == {"name", "email", "message"}

\* the message is built before the try block: a body the schema refuses
\* leaves the handler as an uncaught exception
submit_contact(body, fault) ==
    LET msg == ContactMessage(body)
        out == create_document(ContactCollection, msg, fault)
    IN  IF Missing(ContactMessageFields, body) # {}
        THEN [response |-> InternalServerError, store |-> store]
        ELSE IF out.raised
        THEN [response |-> ServerError(out.msg), store |-> store]
        ELSE [response |-> Ok([ok |-> TRUE, id |-> out.id]), store |-> out.store]

----------------------------------------------------------------------------
(* GET /test *)

\* db.list_collection_names(): the collections that hold a document
ListCollectionNames ==
    SelectSeq(<<"blogpost", "contactmessage", "user">>,
              LAMBDA c : store[c] # << >>)

ListFaults == {"none", LongMessage}

\* the environment settings the endpoint looks for, and the environments
\* the model runs it in
EnvCases == {{}, {"DATABASE_URL", "DATABASE_NAME"}}

\* the status glyphs that open the texts of the source are left out
test_database(env, fault) ==
    LET connected == db # "none"
        listed    == connected /\ fault = "none"
    IN  Ok([backend |-> "Running",
            database |->
                IF ~connected THEN "Available but not initialized"
                ELSE IF listed THEN "Connected & Working"
                ELSE "Connected but Error: " \o Trunc50(fault),
            database_url |-> IF "DATABASE_URL" \in env THEN "Set" ELSE "Not Set",
            database_name |-> IF "DATABASE_NAME" \in env THEN "Set" ELSE "Not Set",
            connection_status |-> IF connected THEN "Connected" ELSE "Not Connected",
            collections |-> IF listed THEN Take(ListCollectionNames, 10) ELSE << >>])

----------------------------------------------------------------------------
(* The state machine *)

Served(op, req, fault, response) ==
    [op |-> op, req |-> req, fault |-> fault,
     status |-> response.status, body |-> response.body]

Published(st) == Len(SelectSeq(st["blogpost"], LAMBDA p : p.published))

Other(st) ==
    Len(st["user"]) + Len(st["contactmessage"])
        + Len(SelectSeq(st["blogpost"], LAMBDA p : ~p.published))

\* the counts the environment may choose for a read: they matter only to a
\* read that works and has a limit of zero or less, which may return no
\* document, as many as the size of the limit, or all that match
ReadCounts(limit, fault) ==
    IF limit >= 1 \/ EffectiveFault(fault) # "none"
    THEN {0}
    ELSE {0, Min(0 - limit, Published(store)), Published(store)}

WithinBounds(st) == Len(st["blogpost"]) <= MaxPosts /\ Other(st) <= MaxOther

Init ==
    /\ db \in {"none", "handle"}
    /\ store = [c \in Collections |-> << >>]
    /\ last = [op |-> "start", req |-> << >>, fault |-> "none",
               status |-> 0, body |-> << >>]
    /\ signups = << >>

ReadRoot ==
    /\ last' = Served("read_root", << >>, "none", read_root)
    /\ UNCHANGED <<db, store, signups>>

GetPlans ==
    /\ last' = Served("get_plans", << >>, "none", Ok(get_plans))
    /\ UNCHANGED <<db, store, signups>>

Signup ==
    \E body \in SignupBodies :
        LET miss == Missing(SignupRequired, body)
        IN  IF miss # {}
            THEN /\ last' = Served("signup", body, "none", ValidationError(miss))
                 /\ UNCHANGED <<db, store, signups>>
            ELSE \E fault \in Faults :
                    LET r == signup(body, fault)
                    IN  /\ WithinBounds(r.store)
                        /\ store' = r.store
                        /\ last' = Served("signup", body, EffectiveFault(fault),
                                          r.response)
                        /\ signups' = IF r.response.status = 200
                                      THEN Append(signups, body)
                                      ELSE signups
                        /\ UNCHANGED db

Login ==
    \E body \in LoginBodies :
        LET miss == Missing(LoginRequired, body)
        IN  IF miss # {}
            THEN /\ last' = Served("login", body, "none", ValidationError(miss))
                 /\ UNCHANGED <<db, store, signups>>
            ELSE \E fault \in Faults :
                    LET r == login(body, fault)
                    IN  /\ WithinBounds(r.store)
                        /\ store' = r.store
                        /\ last' = Served("login", body, EffectiveFault(fault),
                                          r.response)
                        /\ UNCHANGED <<db, signups>>

CreateBlog ==
    \E body \in BlogBodies :
        LET miss == Missing(BlogRequired, body)
        IN  IF miss # {}
            THEN /\ last' = Served("create_blog", body, "none", ValidationError(miss))
                 /\ UNCHANGED <<db, store, signups>>
            ELSE \E fault \in Faults :
                    LET r == create_blog(body, fault)
                    IN  /\ WithinBounds(r.store)
                        /\ store' = r.store
                        /\ last' = Served("create_blog", body, EffectiveFault(fault),
                                          r.response)
                        /\ UNCHANGED <<db, signups>>

ListBlogs ==
    \E limit \in Limits, fault \in Faults :
        \E count \in ReadCounts(limit, fault) :
            LET r == list_blogs(limit, fault, count)
            IN  /\ store' = r.store
                /\ last' = Served("list_blogs", [limit |-> limit],
                                  EffectiveFault(fault), r.response)
                /\ UNCHANGED <<db, signups>>

SubmitContact ==
    \E body \in ContactBodies :
        LET miss == Missing(ContactRequired, body)
        IN  IF miss # {}
            THEN /\ last' = Served("submit_contact", body, "none", ValidationError(miss))
                 /\ UNCHANGED <<db, store, signups>>
            ELSE \E fault \in Faults :
                    LET r == submit_contact(body, fault)
                    IN  /\ WithinBounds(r.store)
                        /\ store' = r.store
                        /\ last' = Served("submit_contact", body, EffectiveFault(fault),
                                          r.response)
                        /\ UNCHANGED <<db, signups>>

TestDatabase ==
    \E env \in EnvCases, fault \in ListFaults :
        /\ last' = Served("test_database", [env |-> env],
                          IF db = "none" THEN "none" ELSE fault,
                          test_database(env, fault))
        /\ UNCHANGED <<db, store, signups>>

Next ==
    \/ ReadRoot
    \/ GetPlans
    \/ Signup
    \/ Login
    \/ CreateBlog
    \/ ListBlogs
    \/ SubmitContact
    \/ TestDatabase

Spec == Init /\ [][Next]_vars

----------------------------------------------------------------------------
(* Properties *)

Posts == store["blogpost"]
Users == store["user"]
Contacts == store["contactmessage"]

\* the last request was op, its body passed validation and it was answered
Answered(op) == last.op = op /\ last.status # 422

IsPrefix(s, t) == Len(s) <= Len(t) /\ SubSeq(t, 1, Len(s)) = s

\* a listed record that stands for the stored post p: its key is under id,
\* in text form, and it has no _id
Lists(r, p) ==
    /\ "id" \in DOMAIN r
    /\ "_id" \notin DOMAIN r
    /\ r["id"] = Str(p["_id"])

Listed(p) == \E j \in 1..Len(last.body) : Lists(last.body[j], p)

\* C1 as stated: a list_blogs call with the default limit that is answered
\* 200 returns every published post that create_blog has stored, each with
\* an id field and no _id field, however many posts the store holds.
C1_ListContainsCreated ==
    (Answered("list_blogs") /\ last.status = 200 /\ last.req.limit = DefaultLimit)
        => \A i \in 1..Len(Posts) : Posts[i].published => Listed(Posts[i])

\* C1 amended: a list_blogs call answered 200 returns every published post
\* that create_blog has stored, each with an id field and no _id field,
\* provided the store holds no more published posts than the limit of the
\* call (10 by default).
C1_ListContainsCreatedWithinLimit ==
    (Answered("list_blogs") /\ last.status = 200 /\ Published(store) <= last.req.limit)
        => \A i \in 1..Len(Posts) : Posts[i].published => Listed(Posts[i])

C1_Witness ==
    /\ Answered("list_blogs") /\ last.status = 200
    /\ last.req.limit = DefaultLimit
    /\ Published(store) = DefaultLimit
    /\ Listed(Posts[Len(Posts)])

NoUserWith(email) == \A i \in 1..Len(Users) : Users[i].email # email

InvalidCredentials == HTTPException(401, "Invalid credentials")

\* C2: while no user record holds an email and the lookup does not fail,
\* login with that email is answered 401 'Invalid credentials' for every
\* password, the same answer for all of them.
C2_UnknownEmailIs401 ==
    /\ (Answered("login") /\ last.fault = "none" /\ NoUserWith(last.req.email))
           => (last.status = 401 /\ last.body = InvalidCredentials.body)
    /\ \A e \in Emails :
           (db # "none" /\ NoUserWith(e))
               => \A pw \in LoginPasswords :
                      login([email |-> e, password |-> pw], "none").response
                          = InvalidCredentials

C2_Witness ==
    /\ Answered("login") /\ last.fault = "none"
    /\ last.status = 401
    /\ Users # << >>
    /\ NoUserWith(last.req.email)

LoggedIn == Ok([ok |-> TRUE, message |-> "Logged in"])

SignedUp(email) == \E i \in 1..Len(signups) : signups[i].email = email

\* C3: once a signup for an email has been answered 200, every login with
\* that email whose lookup does not fail is answered {ok: true, message:
\* 'Logged in'}, whatever the password, in every later state.
C3_KnownEmailLogsIn ==
    /\ (Answered("login") /\ last.fault = "none" /\ SignedUp(last.req.email))
           => (last.status = 200 /\ last.body = LoggedIn.body)
    /\ \A e \in Emails :
           (db # "none" /\ SignedUp(e))
               => \A pw \in LoginPasswords :
                      login([email |-> e, password |-> pw], "none").response = LoggedIn

\* a login answered 200 with a password that no signup for that email used
C3_Witness ==
    /\ Answered("login") /\ last.status = 200
    /\ SignedUp(last.req.email)
    /\ \A i \in 1..Len(signups) :
           signups[i].email = last.req.email => signups[i].password # last.req.password

\* the stored user records carry the digest of the password of the signup
\* that created them, and nothing else of it
DigestStored ==
    /\ Len(Users) = Len(signups)
    /\ \A i \in 1..Len(Users) :
           /\ DOMAIN Users[i] = {"name", "email", "password_hash", "_id"}
           /\ Users[i].password_hash = Sha256Hex(signups[i].password)
           /\ Users[i].password_hash # signups[i].password
           /\ Users[i].name = signups[i].name
           /\ Users[i].email = signups[i].email
    /\ \A i, j \in 1..Len(Users) :
           signups[i].password = signups[j].password
               => Users[i].password_hash = Users[j].password_hash

\* C4 as stated: a signup with valid fields is answered ok: true with a
\* non-empty identifier, and the stored records carry the digest of the
\* password, never the plaintext.
C4_SignupOkAndDigest ==
    /\ Answered("signup")
           => (last.status = 200 /\ last.body.ok = TRUE /\ last.body.id # "")
    /\ DigestStored

\* C4 amended: a signup with valid fields is answered ok: true with a
\* non-empty identifier unless the persistence write raises (it is then
\* answered 500); every stored user record has password_hash = digest of the
\* password of the signup that created it, two signups with the same password
\* store the same password_hash, and no record has a field for the plaintext.
C4_SignupOkUnlessWriteFailsAndDigest ==
    /\ (Answered("signup") /\ last.fault = "none")
           => (last.status = 200 /\ last.body.ok = TRUE /\ last.body.id # "")
    /\ (Answered("signup") /\ last.fault # "none") => last.status = 500
    /\ DigestStored

\* two signups with the same password are stored, the last just answered
C4_Witness ==
    /\ Answered("signup") /\ last.status = 200
    /\ Len(Users) >= 2
    /\ signups[1].password = signups[2].password
    /\ Users[1].password_hash = Users[2].password_hash

\* C5 as stated: a list_blogs call that returns a list returns at most as
\* many records as its limit, whatever the limit; with limit 2, at most 2
\* however many published posts exist.
C5_ListBoundedByLimit ==
    (Answered("list_blogs") /\ last.status = 200)
        => Len(last.body) <= last.req.limit

\* C5 amended: a list_blogs call with a limit of at least 1 that returns a
\* list returns at most as many records as its limit; with limit 2, at most
\* 2 however many published posts exist.  (A limit below 0 cannot bound the
\* length of a list, and what a limit of 0 reads is not specified.)
C5_ListBoundedByPositiveLimit ==
    (Answered("list_blogs") /\ last.status = 200 /\ last.req.limit >= 1)
        => Len(last.body) <= last.req.limit

C5_Witness ==
    /\ Answered("list_blogs") /\ last.status = 200
    /\ last.req.limit = 2
    /\ Len(last.body) = 2
    /\ Published(store) > 2

HasContactFields == ContactMessageFields \subseteq DOMAIN last.req

\* C6 as stated: a contact submission with name, email and message present
\* is answered {ok: true, id} with a generated identifier.
C6_ContactAlwaysOk ==
    (last.op = "submit_contact" /\ HasContactFields)
        => (last.status = 200 /\ last.body.ok = TRUE /\ last.body.id # "")

\* the step served a contact submission
ContactStep == last'.op = "submit_contact"

OthersUnchanged(coll) == \A c \in Collections \ {coll} : store'[c] = store[c]

\* what a contact submission does to the store
ContactEffect ==
    ContactStep =>
        IF "message" \notin DOMAIN last'.req
        THEN last'.status = 422 /\ store' = store
        ELSE IF last'.fault # "none"
        THEN last'.status = 500 /\ store' = store
        ELSE /\ last'.status = 200
             /\ last'.body = [ok |-> TRUE, id |-> Str(Len(Contacts) + 1)]
             /\ store'["contactmessage"]
                    = Append(Contacts, last'.req @@ ("_id" :> (Len(Contacts) + 1)))
             /\ OthersUnchanged("contactmessage")

\* C6 amended: a contact submission with name, email and message present is
\* answered {ok: true, id} with a generated identifier and adds exactly one
\* record to the contactmessage collection, unless the persistence write
\* raises (it is then answered 500 and nothing is stored); a submission
\* without message is refused with 422 and leaves every collection unchanged.
C6_ContactOkUnlessWriteFails == [][ContactEffect]_vars

C6_Witness ==
    /\ last.op = "submit_contact" /\ last.status = 200
    /\ last.body.id = "2"
    /\ Len(Contacts) = 2

\* C7: every answer of GET /api/plans is the same three plans, free, pro and
\* team in that order, pro highlighted and the other two not, whatever
\* requests came before and whether or not there is a database.
C7_PlansFixed ==
    last.op = "get_plans"
        => /\ last.status = 200
           /\ Len(last.body) = 3
           /\ [i \in 1..3 |-> last.body[i].id] = <<"free", "pro", "team">>
           /\ [i \in 1..3 |-> last.body[i].highlighted] = <<FALSE, TRUE, FALSE>>

C7_Witness ==
    /\ last.op = "get_plans"
    /\ Users # << >> /\ Posts # << >> /\ Contacts # << >>

PersistenceOps == {"signup", "login", "create_blog", "list_blogs", "submit_contact"}

\* a request that met a persistence failure is answered 500 with the
\* message of the exception; a login that finds no user is answered 401
FailureAnswer ==
    /\ (last.op \in PersistenceOps /\ last.status # 422 /\ last.fault # "none")
           => (last.status = 500 /\ last.body = [detail |-> last.fault])
    /\ (Answered("login") /\ last.fault = "none" /\ NoUserWith(last.req.email))
           => last.status = 401

\* a request that met a persistence failure leaves the store as it was
FailureEffect ==
    (last'.op \in PersistenceOps /\ last'.status # 422 /\ last'.fault # "none")
        => store' = store

\* C8: a persistence failure in signup, login, create_blog, list_blogs or
\* submit_contact is answered 500 with the exception's message and leaves
\* the store unchanged; login's 'no such user' case is answered 401, not 500.
C8_FailureIs500AndNoWrite == []FailureAnswer /\ [][FailureEffect]_vars

C8_Witness ==
    /\ last.op = "create_blog" /\ last.status = 500
    /\ last.fault = "connection timed out"
    /\ Posts # << >>

\* the collection each creating handler writes
Target(op) ==
    CASE op = "signup" -> "user"
      [] op = "create_blog" -> "blogpost"
      [] op = "submit_contact" -> "contactmessage"

Creates == {"signup", "create_blog", "submit_contact"}

\* what any step does to the store
AppendOnly ==
    IF last'.op \in Creates /\ last'.status = 200
    THEN /\ \A c \in Collections : IsPrefix(store[c], store'[c])
         /\ Len(store'[Target(last'.op)]) = Len(store[Target(last'.op)]) + 1
         /\ OthersUnchanged(Target(last'.op))
    ELSE store' = store

\* C9: no step modifies or removes a stored record; a successful signup,
\* create_blog or submit_contact adds exactly one record to its own
\* collection and leaves the others unchanged; every other request leaves
\* every collection unchanged.
C9_AppendOnly == [][AppendOnly]_vars

C9_Witness ==
    /\ last.op = "list_blogs" /\ last.status = 200
    /\ Users # << >> /\ Posts # << >> /\ Contacts # << >>

\* C10: every record list_blogs returns has published = true, and no stored
\* unpublished post is among the records returned, for any limit.
C10_NoUnpublishedListed ==
    (Answered("list_blogs") /\ last.status = 200)
        => /\ \A j \in 1..Len(last.body) : last.body[j].published = TRUE
           /\ \A i \in 1..Len(Posts) : ~Posts[i].published => ~Listed(Posts[i])

\* an unpublished post was stored before a published one that is listed
C10_Witness ==
    /\ Answered("list_blogs") /\ last.status = 200
    /\ Len(Posts) >= 2
    /\ ~Posts[1].published
    /\ Listed(Posts[2])

====
